---------------------------- MODULE Spec2Model ----------------------------
(***************************************************************************)
(* A model of panel/pane/plotly.py: the Plotly pane, which renders a       *)
(* plotly figure through a PlotlyPlot bokeh model.                         *)
(*                                                                         *)
(* Six state machines share the module:                                    *)
(*   Spec         the render path of one view: _init_params / _get_model  *)
(*                and _update (the diff between the stored render state    *)
(*                and a new figure);                                       *)
(*   SpecRouter   the event path: _update_figure, the remote restyle and  *)
(*                relayout handlers and _send_update_msg, over the views   *)
(*                registered in _models;                                   *)
(*   SpecExtract  _get_sources_for_trace as a function of one trace;       *)
(*   SpecJson     _plotly_json_wrapper as a function of one figure;        *)
(*   SpecSources  _update_data_sources as a function of a buffer and a     *)
(*                trace;                                                   *)
(*   SpecTabs     _patch_tabs_plotly run again and again over one widget   *)
(*                tree whose tabs are reordered in between.                *)
(* Each specification moves its own variables and leaves the others at     *)
(* their idle values.                                                      *)
(*                                                                         *)
(* Python values are tagged records, one field per kind:                   *)
(*   [sc |-> n]      a scalar (number, string, bool as 0/1)                *)
(*   [nd |-> s]      a numeric numpy.ndarray with elements s               *)
(*   [ndM |-> s]     a numpy.ndarray of dtype datetime64                   *)
(*   [ndU |-> s]     a numpy.ndarray of strings (astype(str) of the above) *)
(*   [dict |-> f]    a dict, f a function from string keys to values       *)
(*   [list |-> s]    a list of values                                      *)
(*   [dt |-> n]      a datetime object, [str |-> n] its str()              *)
(* A dict is a function; the empty dict is the empty function << >>.       *)
(***************************************************************************)
EXTENDS Integers, Sequences, FiniteSets, TLC

VARIABLES
    \* ---- render path (Spec) ----
    object,         \* pane.object: NoObject or a figure [data, layout]
    sizing_mode,    \* pane.sizing_mode: NoneMode is the param default
    model,          \* the view's PlotlyPlot model, NoModel before _get_model
    op,             \* the last operation run on the view
    rendered,       \* the pane.object of the view's latest render
    rel,            \* how the latest render's figure relates to the one before
    inc,            \* by how much the latest _update changed model._render_count
    updates,        \* the keyword set of the latest model.update(**updates)
    written,        \* <<index, key>> of each buffer column the latest _update assigned
    \* ---- event path (SpecRouter) ----
    r_object,       \* pane.object, by identity: "None", a native Figure, or another kind
    r_figure,       \* pane._figure
    r_patched,      \* the figures whose _send_*_msg hooks are bound to the pane
    r_models,       \* the keys of pane._models
    r_applied,      \* per figure, the number of restyle/relayout mutations applied
    r_inbox,        \* per view, the number of messages _apply_update pushed to it
    r_last,         \* the latest event: its handler, its origin, the figure it
                    \* changed and the views it pushed a message to
    \* ---- array extraction (SpecExtract) ----
    x_trace,        \* the trace handed to _get_sources_for_trace
    x_json,         \* the trace after the call
    x_data,         \* the data dict after the call
    x_pc,           \* "in" before the call, "done" after
    \* ---- datetime fix (SpecJson) ----
    j_fig,          \* the figure as to_plotly_json() returns it
    j_json,         \* what _plotly_json_wrapper returns for it
    j_pc,           \* "in" before the call, "done" after
    \* ---- buffer update (SpecSources) ----
    s_cds,          \* the ColumnDataSource handed to _update_data_sources
    s_trace,        \* the trace handed to it
    s_res,          \* the buffer and the trace after the call, the value returned
                    \* and the columns assigned
    s_pc,           \* "in" before the call, "done" after
    \* ---- tab patch (SpecTabs) ----
    t_parent,       \* the widget tree: where each Tabs and each PlotlyPlot sits
    t_order,        \* per Tabs model, its tabs (Panels) in their current order
    t_active,       \* per Tabs model, its active index
    t_cbs,          \* per Tabs model, js_property_callbacks['change:active']
    t_visible,      \* per PlotlyPlot model, its visible property
    t_last          \* the latest step: a run of the patch (and the order in which
                    \* it visited the plots) or a reordering of tabs

renderVars == <<object, sizing_mode, model, op, rendered, rel, inc, updates, written>>
routerVars == <<r_object, r_figure, r_patched, r_models, r_applied, r_inbox, r_last>>
extractVars == <<x_trace, x_json, x_data, x_pc>>
jsonVars == <<j_fig, j_json, j_pc>>
sourcesVars == <<s_cds, s_trace, s_res, s_pc>>
tabsVars == <<t_parent, t_order, t_active, t_cbs, t_visible, t_last>>
vars == <<renderVars, routerVars, extractVars, jsonVars, sourcesVars, tabsVars>>

-----------------------------------------------------------------------------
(***************************************************************************)
(* Python values.                                                          *)
(***************************************************************************)

\* float('nan') as an array element: unequal to every element, itself included.
NaN == -1

Sc(n) == [sc |-> n]
Nd(s) == [nd |-> s]
Dict(f) == [dict |-> f]
List(s) == [list |-> s]

IsDict(v) == DOMAIN v = {"dict"}
IsList(v) == DOMAIN v = {"list"}
\* isinstance(value, np.ndarray)
IsNdarray(v) == DOMAIN v \in {{"nd"}, {"ndM"}, {"ndU"}}
\* the elements of an ndarray, whatever its dtype
Elems(v) == IF DOMAIN v = {"nd"} THEN v.nd ELSE IF DOMAIN v = {"ndM"} THEN v.ndM ELSE v.ndU

\* dict.pop(key) / a dict without key
Without(f, key) == [k \in (DOMAIN f) \ {key} |-> f[k]]
\* dict[key] = value
With(f, key, value) == (key :> value) @@ f

\* The keys of a dict in the order list(json.items()) yields them. Python keeps
\* insertion order; the model iterates in one fixed order of the keys. The order
\* decides only which of two arrays survives when their paths collide.
RECURSIVE KeysOf(_)
KeysOf(S) ==
    IF S = {} THEN << >>
    ELSE LET k == CHOOSE c \in S : TRUE IN <<k>> \o KeysOf(S \ {k})

-----------------------------------------------------------------------------
(***************************************************************************)
(* _get_sources_for_trace(json, data, parent_path): walks the trace, pops  *)
(* every numpy array into data under its dotted path, recurses into dicts  *)
(* and into lists whose first element is a dict. The trace and data are    *)
(* mutated in place; the operator returns both as they are after the call. *)
(* An element of such a list is used as a mapping (element.items()).       *)
(***************************************************************************)
RECURSIVE GetSourcesItems(_, _, _, _), GetSourcesElements(_, _, _, _)

\* mutant of FullPath: the parent's path is left out
FullPathKeyOnly(parent_path, key) == key

\* full_path = key if not parent_path else "{}.{}".format(parent_path, key)
FullPath(parent_path, key) ==
    IF parent_path = "" THEN key ELSE parent_path \o "." \o key

GetSourcesItems(items, json, data, parent_path) ==
    IF items = << >> THEN [json |-> json, data |-> data]
    ELSE LET key == Head(items)
             value == json[key]
             full_path == FullPath(parent_path, key)
         IN IF IsNdarray(value)
            THEN GetSourcesItems(Tail(items), Without(json, key),
                                 With(data, full_path, <<value>>), parent_path)
            ELSE IF IsDict(value)
            THEN LET r == GetSourcesItems(KeysOf(DOMAIN value.dict), value.dict,
                                          data, full_path)
                 IN GetSourcesItems(Tail(items), [json EXCEPT ![key] = Dict(r.json)],
                                    r.data, parent_path)
            ELSE IF IsList(value) /\ value.list # << >> /\ IsDict(value.list[1])
            THEN LET r == GetSourcesElements(1, value.list, data, full_path)
                 IN GetSourcesItems(Tail(items), [json EXCEPT ![key] = List(r.list)],
                                    r.data, parent_path)
            ELSE GetSourcesItems(Tail(items), json, data, parent_path)

\* for i, element in enumerate(value): element i (from 1 here) has suffix str(i-1)
GetSourcesElements(i, list, data, full_path) ==
    IF i > Len(list) THEN [list |-> list, data |-> data]
    ELSE LET element_path == full_path \o "." \o ToString(i - 1)
             r == GetSourcesItems(KeysOf(DOMAIN list[i].dict), list[i].dict,
                                  data, element_path)
         IN GetSourcesElements(i + 1, [list EXCEPT ![i] = Dict(r.json)],
                               r.data, full_path)

GetSourcesForTrace(json, data, parent_path) ==
    GetSourcesItems(KeysOf(DOMAIN json), json, data, parent_path)

-----------------------------------------------------------------------------
(***************************************************************************)
(* The figures a pane is given. A figure is [data |-> <<trace, ...>>,      *)
(* layout |-> dict], what to_plotly_json() returns for it (a deep copy:    *)
(* no value of one render is the same object as a value of another).       *)
(***************************************************************************)
NoObject == [none |-> TRUE]
NoModel == [none |-> TRUE]

TraceA == [x |-> Nd(<<1, 2>>), uid |-> Sc(1)]
TraceB == [x |-> Nd(<<1, 3>>), uid |-> Sc(1)]        \* TraceA with one element changed
TraceU == [x |-> Nd(<<1, 2>>), uid |-> Sc(2)]        \* TraceA with another uid
TraceN == [x |-> Nd(<<1, NaN>>), uid |-> Sc(1)]      \* an array holding a NaN
TraceM == [marker |-> Dict([color |-> Nd(<<5, 6>>)]), name |-> Sc(3)]
TraceL == [z |-> List(<<Nd(<<1, 2>>)>>)]             \* a list of arrays
TraceD == [x |-> [ndM |-> <<1, 2>>]]                 \* a datetime64 array
TraceS == [name |-> Sc(4)]                           \* no array at all

LayoutEmpty == << >>
LayoutAuto == [autosize |-> Sc(1)]
LayoutFixed == [autosize |-> Sc(0)]
LayoutArr == [shapes |-> Nd(<<1, 2>>)]               \* an array inside the layout

Fig(data, layout) == [data |-> data, layout |-> layout]

Figures ==
    { Fig(d, LayoutEmpty) : d \in { << >>, <<TraceA>>, <<TraceB>>, <<TraceU>>, <<TraceN>>,
                                    <<TraceA, TraceM>>, <<TraceB, TraceM>>, <<TraceL>>,
                                    <<TraceD>>, <<TraceS>> } }
    \cup { Fig(d, l) : d \in { <<TraceA>>, <<TraceB>> }, l \in { LayoutAuto, LayoutFixed } }
    \cup { Fig(<<TraceA>>, LayoutArr) }

Objects == {NoObject} \cup Figures

\* pane.sizing_mode: NoneMode is self.param.sizing_mode.default
NoneMode == "None"
SizingModes == {NoneMode, "fixed", "stretch_width"}

\* bool(value) of a scalar
Truthy(v) == v.sc # 0

-----------------------------------------------------------------------------
(***************************************************************************)
(* _plotly_json_wrapper: to_plotly_json plus the datetime fix, applied to  *)
(* the top-level keys of every trace.                                      *)
(***************************************************************************)
\* util.isdatetime on an array or a list
IsDatetime(v) ==
    \/ DOMAIN v = {"ndM"}
    \/ IsList(v) /\ \A i \in 1..Len(v.list) : DOMAIN v.list[i] = {"dt"}

\* arr.astype(str) for an ndarray, [str(v) for v in arr] for a list
DatetimeToStr(v) ==
    IF IsNdarray(v) THEN [ndU |-> Elems(v)]
    ELSE List([i \in 1..Len(v.list) |-> [str |-> v.list[i].dt]])

PlotlyJsonWrapper(fig) ==
    [fig EXCEPT !.data =
        [idx \in 1..Len(fig.data) |->
            [key \in DOMAIN fig.data[idx] |->
                IF IsDatetime(fig.data[idx][key])
                THEN DatetimeToStr(fig.data[idx][key])
                ELSE fig.data[idx][key]]]]

-----------------------------------------------------------------------------
(***************************************************************************)
(* Comparisons.                                                            *)
(***************************************************************************)
\* a == b in Python, for values of two different renders: "eq", "ne", or "raise"
\* when the truth value of an elementwise array comparison is ambiguous. Python
\* stops at the first unequal entry of a dict, which may come before the one that
\* raises; both outcomes make the caller's update flag true.
RECURSIVE PyCompare(_, _)
PyCompare(a, b) ==
    LET Combine(S) == IF "raise" \in S THEN "raise"
                      ELSE IF "ne" \in S THEN "ne" ELSE "eq"
    IN IF DOMAIN a # DOMAIN b THEN "ne"
       ELSE IF IsNdarray(a)
       THEN IF Len(Elems(a)) = 1 /\ Len(Elems(b)) = 1
            THEN IF Elems(a)[1] = Elems(b)[1] /\ Elems(a)[1] # NaN THEN "eq" ELSE "ne"
            ELSE "raise"
       ELSE IF IsDict(a)
       THEN IF DOMAIN a.dict # DOMAIN b.dict THEN "ne"
            ELSE Combine({ PyCompare(a.dict[k], b.dict[k]) : k \in DOMAIN a.dict })
       ELSE IF IsList(a)
       THEN IF Len(a.list) # Len(b.list) THEN "ne"
            ELSE Combine({ PyCompare(a.list[i], b.list[i]) : i \in 1..Len(a.list) })
       ELSE IF a = b THEN "eq" ELSE "ne"

\* try: changed = (a != b)  except Exception: changed = True
Differs(a, b) == PyCompare(Dict(a), Dict(b)) # "eq"

\* mutant of UpdateArray: every column of the trace counts as changed
UpdateArrayAlways(cds_data, key, new) == TRUE

\* the test of _update_data_sources on one column: the stored column is missing
\* (None[0] raises), or the arrays differ in type, shape or in some element
\* ((new != old).any(); a NaN differs from everything)
UpdateArray(cds_data, key, new) ==
    IF key \notin DOMAIN cds_data THEN TRUE
    ELSE LET old == cds_data[key][1]
         IN \/ DOMAIN old # DOMAIN new
            \/ Len(Elems(new)) # Len(Elems(old))
            \/ \E i \in 1..Len(Elems(new)) :
                  Elems(new)[i] # Elems(old)[i] \/ Elems(new)[i] = NaN

-----------------------------------------------------------------------------
(***************************************************************************)
(* The render state of a view: the PlotlyPlot model                        *)
(*   [data, data_sources, layout, sizing_mode, render_count]               *)
(* where a ColumnDataSource is [id, data]: id stands for the object's      *)
(* identity, data maps a column name to a one-element sequence.            *)
(***************************************************************************)
\* the cap on _render_count that keeps the state space finite
MaxRender == 3

ColumnDataSource(id, data) == [id |-> id, data |-> data]

\* _get_sources: one ColumnDataSource per trace, the arrays popped from the traces
GetSources(traces) ==
    LET r == [i \in 1..Len(traces) |-> GetSourcesForTrace(traces[i], << >>, "")]
    IN [data |-> [i \in 1..Len(traces) |-> r[i].json],
        sources |-> [i \in 1..Len(traces) |-> ColumnDataSource(i, r[i].data)]]

\* the sizing mode _init_params passes to the model
InitSizingMode(layout, pane_sizing_mode) ==
    IF "autosize" \in DOMAIN layout /\ Truthy(layout.autosize) /\ pane_sizing_mode = NoneMode
    THEN "stretch_both"
    ELSE pane_sizing_mode

\* _init_params, as the model _get_model builds from it
InitParams(obj, pane_sizing_mode) ==
    IF obj = NoObject
    THEN [data |-> << >>, data_sources |-> << >>, layout |-> << >>,
          sizing_mode |-> pane_sizing_mode, render_count |-> 0]
    ELSE LET json == PlotlyJsonWrapper(obj)
             g == GetSources(json.data)
         IN [data |-> g.data, data_sources |-> g.sources, layout |-> json.layout,
             sizing_mode |-> InitSizingMode(json.layout, pane_sizing_mode),
             render_count |-> 0]

\* _update_data_sources(cds, trace): the arrays of the trace are popped, and each
\* column that UpdateArray finds changed is assigned in cds.data
UpdateDataSources(cds, trace) ==
    LET r == GetSourcesForTrace(trace, << >>, "")
        trace_arrays == r.data
        changed == { key \in DOMAIN trace_arrays :
                        UpdateArray(cds.data, key, trace_arrays[key][1]) }
    IN [cds |-> [cds EXCEPT !.data =
                    [key \in (DOMAIN cds.data) \cup changed |->
                        IF key \in changed THEN <<trace_arrays[key][1]>>
                        ELSE cds.data[key]]],
        trace |-> r.json,
        update_sources |-> changed # {},
        keys |-> changed]

\* the cds of trace i in the loop of _update: the stored one, or a new one
SourceFor(m, i) ==
    IF i <= Len(m.data_sources) THEN m.data_sources[i] ELSE ColumnDataSource(i, << >>)

\* mutants of AppendSources: the new buffers are dropped, or put in front
AppendSourcesDropNew(data_sources, new_sources) == data_sources
AppendSourcesInFront(data_sources, new_sources) == new_sources \o data_sources

\* updates['data_sources'] = model.data_sources + new_sources
AppendSources(data_sources, new_sources) == data_sources \o new_sources

\* a trace without its uid
SansUid(trace) == Without(trace, "uid")

\* update_data: the lengths differ, or some pair of traces differs once uid is removed
UpdateData(old_data, traces) ==
    IF Len(old_data) # Len(traces) THEN TRUE
    ELSE \E i \in 1..Len(traces) : Differs(SansUid(traces[i]), SansUid(old_data[i]))

\* mutant of SizingUpdate: the pane's own sizing mode is not consulted
SizingUpdateAlways(m, layout, pane_sizing_mode) ==
    IF "autosize" \in DOMAIN layout
    THEN IF Truthy(layout.autosize) /\ m.sizing_mode # "stretch_both" THEN {"stretch_both"}
         ELSE IF ~Truthy(layout.autosize) /\ m.sizing_mode # "fixed" THEN {"fixed"}
         ELSE {}
    ELSE {}

\* the sizing_mode entry of updates, as a set: empty or one new value
SizingUpdate(m, layout, pane_sizing_mode) ==
    IF pane_sizing_mode = NoneMode /\ "autosize" \in DOMAIN layout
    THEN IF Truthy(layout.autosize) /\ m.sizing_mode # "stretch_both" THEN {"stretch_both"}
         ELSE IF ~Truthy(layout.autosize) /\ m.sizing_mode # "fixed" THEN {"fixed"}
         ELSE {}
    ELSE {}

\* mutant of Trigger: a buffer mutation alone does not count
TriggerOnUpdatesOnly(upd, update_sources) == upd # {}

\* if updates or update_sources: model._render_count += 1
Trigger(upd, update_sources) == upd # {} \/ update_sources

\* mutant of UpdateNone: an update that changes nothing is not counted
UpdateNoneIfChanged(m) ==
    [model |-> [m EXCEPT !.data = << >>, !.layout = << >>,
                         !.render_count = IF m.data = << >> /\ m.layout = << >>
                                          THEN @ ELSE @ + 1],
     updates |-> {"data", "layout"}, written |-> {}]

\* _update with pane.object None: model.update(data=[], layout={}) and
\* model._render_count += 1, then return
UpdateNone(m) ==
    [model |-> [m EXCEPT !.data = << >>, !.layout = << >>,
                         !.render_count = @ + 1],
     updates |-> {"data", "layout"}, written |-> {}]

\* _update(ref, model) with pane.object = obj: the model after the call, the keys
\* of updates, and the columns assigned in place
Update(m, obj, pane_sizing_mode) ==
    IF obj = NoObject
    THEN UpdateNone(m)
    ELSE LET json == PlotlyJsonWrapper(obj)
             layout == json.layout
             n == Len(json.data)
             old == Len(m.data_sources)
             res == [i \in 1..n |-> UpdateDataSources(SourceFor(m, i), json.data[i])]
             traces == [i \in 1..n |-> res[i].trace]
             sources == [i \in 1..old |-> IF i <= n THEN res[i].cds ELSE m.data_sources[i]]
             new_sources == [j \in 1..(IF n > old THEN n - old ELSE 0) |-> res[old + j].cds]
             update_sources == \E i \in 1..n : res[i].update_sources
             update_layout == Differs(m.layout, layout)
             update_data == UpdateData(m.data, traces)
             sizing == SizingUpdate(m, layout, pane_sizing_mode)
             upd == (IF sizing # {} THEN {"sizing_mode"} ELSE {})
                    \cup (IF new_sources # << >> THEN {"data_sources"} ELSE {})
                    \cup (IF update_data THEN {"data"} ELSE {})
                    \cup (IF update_layout THEN {"layout"} ELSE {})
         IN [model |->
                [data |-> IF update_data THEN traces ELSE m.data,
                 data_sources |-> IF new_sources # << >>
                                  THEN AppendSources(sources, new_sources) ELSE sources,
                 layout |-> IF update_layout THEN layout ELSE m.layout,
                 sizing_mode |-> IF sizing # {} THEN CHOOSE v \in sizing : TRUE
                                 ELSE m.sizing_mode,
                 render_count |-> IF Trigger(upd, update_sources)
                                  THEN m.render_count + 1 ELSE m.render_count],
             updates |-> upd,
             written |-> UNION { { <<i, key>> : key \in res[i].keys } : i \in 1..n }]

-----------------------------------------------------------------------------
(***************************************************************************)
(* How the figure of a render relates to the figure of the render before.  *)
(***************************************************************************)
\* the traces without their arrays, and the arrays by path, of a figure
Extracted(fig) ==
    LET json == PlotlyJsonWrapper(fig)
    IN [i \in 1..Len(json.data) |-> GetSourcesForTrace(json.data[i], << >>, "")]

\* the <<trace, path, position>> at which the extracted arrays of f and g differ
DifferingElements(f, g) ==
    LET ef == Extracted(f)
        eg == Extracted(g)
    IN UNION { UNION { { <<i, key, n>> : n \in { j \in 1..Len(Elems(ef[i].data[key][1])) :
                              Elems(ef[i].data[key][1])[j] # Elems(eg[i].data[key][1])[j] } }
                       : key \in DOMAIN ef[i].data }
               : i \in 1..Len(ef) }

\* f and g are the same but for one element of one extracted array
OneElementApart(f, g) ==
    LET ef == Extracted(f)
        eg == Extracted(g)
    IN /\ f.layout = g.layout
       /\ Len(ef) = Len(eg)
       /\ \A i \in 1..Len(ef) :
            /\ ef[i].json = eg[i].json
            /\ DOMAIN ef[i].data = DOMAIN eg[i].data
            /\ \A key \in DOMAIN ef[i].data :
                 /\ DOMAIN ef[i].data[key][1] = DOMAIN eg[i].data[key][1]
                 /\ Len(Elems(ef[i].data[key][1])) = Len(Elems(eg[i].data[key][1]))
       /\ Cardinality(DifferingElements(f, g)) = 1

\* kind: "same" for identical canonical figures, "one_elem" for figures one array
\* element apart (at: the <<trace, path>> of that array), "none" where a render had
\* no figure, "other" otherwise
Relation(prev, obj) ==
    IF prev = NoObject \/ obj = NoObject
    THEN [kind |-> "none", at |-> {}]
    ELSE IF PlotlyJsonWrapper(prev) = PlotlyJsonWrapper(obj)
    THEN [kind |-> "same", at |-> {}]
    ELSE IF OneElementApart(prev, obj)
    THEN [kind |-> "one_elem",
          at |-> { <<d[1], d[2]>> : d \in DifferingElements(prev, obj) }]
    ELSE [kind |-> "other", at |-> {}]

-----------------------------------------------------------------------------
(***************************************************************************)
(* Spec: the render path of one view.                                      *)
(***************************************************************************)
RouterIdle ==
    /\ r_object = "None" /\ r_figure = "None" /\ r_patched = {} /\ r_models = {}
    /\ r_applied = << >> /\ r_inbox = << >> /\ r_last = [op |-> "init"]

ExtractIdle ==
    /\ x_trace = << >> /\ x_json = << >> /\ x_data = << >> /\ x_pc = "idle"

JsonIdle ==
    /\ j_fig = << >> /\ j_json = << >> /\ j_pc = "idle"

SourcesIdle ==
    /\ s_cds = << >> /\ s_trace = << >> /\ s_res = << >> /\ s_pc = "idle"

TabsIdle ==
    /\ t_parent = << >> /\ t_order = << >> /\ t_active = << >> /\ t_cbs = << >>
    /\ t_visible = << >> /\ t_last = [op |-> "idle"]

\* the state of the specifications that take one call's inputs
CallsIdle == ExtractIdle /\ JsonIdle /\ SourcesIdle /\ TabsIdle

RenderIdle ==
    /\ object = NoObject /\ sizing_mode = NoneMode /\ model = NoModel /\ op = "idle"
    /\ rendered = NoObject /\ rel = [kind |-> "none", at |-> {}] /\ inc = 0
    /\ updates = {} /\ written = {}

\* the pane after __init__(object, sizing_mode=...), not yet rendered
Init ==
    /\ object \in Objects
    /\ sizing_mode \in SizingModes
    /\ model = NoModel
    /\ op = "init"
    /\ rendered = NoObject
    /\ rel = [kind |-> "none", at |-> {}]
    /\ inc = 0
    /\ updates = {}
    /\ written = {}
    /\ RouterIdle
    /\ CallsIdle

\* _get_model: the first render of the view
GetModel ==
    /\ model = NoModel
    /\ model' = InitParams(object, sizing_mode)
    /\ op' = "get_model"
    /\ rendered' = object
    /\ rel' = [kind |-> "none", at |-> {}]
    /\ inc' = 0
    /\ updates' = {}
    /\ written' = {}
    /\ UNCHANGED <<object, sizing_mode, routerVars, extractVars, jsonVars, sourcesVars, tabsVars>>

\* pane.object = obj (or the figure is mutated in place and 'object' is
\* triggered, _update_from_figure): the pane runs _update on the view's model
UpdateObject(obj) ==
    /\ model # NoModel
    /\ model.render_count < MaxRender
    /\ object' = obj
    /\ LET r == Update(model, obj, sizing_mode)
       IN /\ model' = r.model
          /\ updates' = r.updates
          /\ written' = r.written
          /\ inc' = r.model.render_count - model.render_count
    /\ op' = "update"
    /\ rendered' = obj
    /\ rel' = Relation(rendered, obj)
    /\ UNCHANGED <<sizing_mode, routerVars, extractVars, jsonVars, sourcesVars, tabsVars>>

Next ==
    \/ GetModel
    \/ \E obj \in Objects : UpdateObject(obj)

Spec == Init /\ [][Next]_vars

-----------------------------------------------------------------------------
(***************************************************************************)
(* Properties of the render path (Spec).                                   *)
(***************************************************************************)
Updated == op = "update"

\* C1 (as stated): after every _update the number of traces in model.data equals
\* the number of buffers in model.data_sources.
C1_TracesEqualBuffers ==
    Updated => Len(model.data) = Len(model.data_sources)

\* C1 (amended): after every _update the number of traces in model.data is at
\* most the number of buffers in model.data_sources.
C1_TracesAtMostBuffers ==
    Updated => Len(model.data) <= Len(model.data_sources)

\* an _update that left more buffers than traces
C1_Witness ==
    Updated /\ Len(model.data) < Len(model.data_sources)

\* C2: a render whose canonical figure is identical to the one of the render
\* before sends no data update, no layout update and leaves the render count.
C2_IdenticalRenderIsSilent ==
    (Updated /\ rel.kind = "same") =>
        "data" \notin updates /\ "layout" \notin updates /\ inc = 0

\* C5: in _update with a figure, when pane.sizing_mode is the default and the
\* layout has autosize, the model's sizing mode ends as stretch_both (autosize
\* true) or fixed (autosize false); when pane.sizing_mode was set by the caller
\* no sizing_mode update is emitted and the model keeps the caller's mode.
C5_SizingMode ==
    (Updated /\ object # NoObject) =>
        /\ (sizing_mode = NoneMode /\ "autosize" \in DOMAIN object.layout) =>
              model.sizing_mode = IF Truthy(object.layout.autosize)
                                  THEN "stretch_both" ELSE "fixed"
        /\ sizing_mode # NoneMode =>
              "sizing_mode" \notin updates /\ model.sizing_mode = sizing_mode

\* an _update that forced the sizing mode to fixed
C5_Witness ==
    /\ Updated /\ object # NoObject /\ sizing_mode = NoneMode
    /\ "autosize" \in DOMAIN object.layout /\ ~Truthy(object.layout.autosize)
    /\ "sizing_mode" \in updates /\ model.sizing_mode = "fixed"

\* C7: a render whose figure differs from the one before in one element of one
\* extracted array emits no update at all, assigns exactly that column of that
\* trace's buffer, and increments the render count by exactly 1.
C7_OneElementIsBufferOnly ==
    (Updated /\ rel.kind = "one_elem") =>
        /\ updates = {}
        /\ written = rel.at
        /\ \A w \in rel.at :
              model.data_sources[w[1]].data[w[2]] = Extracted(object)[w[1]].data[w[2]]
        /\ inc = 1

\* C8: an _update changes the render count by 0 or 1 (it never decreases), and
\* by 1 exactly when it applied a non-empty update set or assigned a column.
C8_RenderCount ==
    Updated =>
        /\ inc \in {0, 1}
        /\ inc = 1 <=> (updates # {} \/ written # {})

\* a pure buffer mutation that was counted
C8_Witness ==
    Updated /\ updates = {} /\ written # {} /\ inc = 1

\* C9: over every step the data_sources list keeps each buffer it had at the
\* index it had; buffers are only added, at the end.
C9_SourcesOnlyGrow ==
    [][(model # NoModel /\ model' # NoModel) =>
          /\ Len(model'.data_sources) >= Len(model.data_sources)
          /\ \A i \in 1..Len(model.data_sources) :
                model'.data_sources[i].id = model.data_sources[i].id
          /\ \A i, j \in 1..Len(model'.data_sources) :
                i # j => model'.data_sources[i].id # model'.data_sources[j].id]_vars

\* an _update that appended a buffer to a non-empty list
C9_Witness ==
    Updated /\ "data_sources" \in updates /\ Len(model.data_sources) >= 2

\* C19: an _update with pane.object None leaves the model's data the empty list
\* and its layout the empty mapping, leaves data_sources and sizing_mode as they
\* were, and increments the render count by exactly 1, also when data and layout
\* were empty before.
C19_NoneEmptiesAndCounts ==
    [][(op' = "update" /\ object' = NoObject) =>
          /\ model'.data = << >>
          /\ model'.layout = << >>
          /\ model'.data_sources = model.data_sources
          /\ model'.sizing_mode = model.sizing_mode
          /\ model'.render_count = model.render_count + 1]_vars

\* an _update with None on a view that never rendered a trace (its data and
\* layout were empty before), counted all the same
C19_Witness ==
    /\ Updated /\ object = NoObject /\ inc = 1
    /\ model.data_sources = << >> /\ model.render_count >= 2

\* the traces of a figure as _update compares them: after the datetime fix, with
\* their arrays popped
NewTraces(obj) == [i \in 1..Len(obj.data) |-> Extracted(obj)[i].json]

\* some pair of traces at one index differs once uid is removed from both
TracesDifferSansUid(old, new) ==
    \E i \in 1..Len(new) : SansUid(new[i]) # SansUid(old[i])

\* C14: an _update with a figure emits a data update if and only if
\* the number of new traces differs from the number of stored traces or at some
\* index the new and the stored trace differ once uid is removed from both.
C14_DataUpdateIffTracesDiffer ==
    [][(op' = "update" /\ object' # NoObject) =>
          ("data" \in updates' <=>
              \/ Len(NewTraces(object')) # Len(model.data)
              \/ TracesDifferSansUid(model.data, NewTraces(object')))]_vars

-----------------------------------------------------------------------------
(***************************************************************************)
(* SpecRouter: the event path. The pane tracks one native Figure in        *)
(* _figure and binds that figure's _send_*_msg hooks to itself; remote     *)
(* views set restyle_data / relayout_data on the pane; the figure calls    *)
(* its hooks when it is mutated.                                           *)
(*                                                                         *)
(* plotly's BaseFigure.plotly_restyle(restyle_data, trace_indexes=None,    *)
(* **kwargs) and plotly_relayout(relayout_data, **kwargs) apply the change *)
(* to the figure and, when it changed something, call the figure's         *)
(* _send_restyle_msg / _send_relayout_msg hook, handing on the             *)
(* source_view_id keyword they were called with, if any.                   *)
(***************************************************************************)
\* the most views a pane is rendered in, and the most mutations a figure takes
MaxViews == 2
MaxApplied == 2

Views == 1..MaxViews
NativeFigures == {"F1", "F2"}     \* objects whose type is go.Figure
\* "None", a native Figure, or anything else the pane renders (a dict, a tuple,
\* a list of traces, an instance of a Figure subclass)
RouterObjects == {"None", "other"} \cup NativeFigures

\* source_view_id=None
NoSid == 0

NoEvent(name) ==
    [op |-> name, origin |-> NoSid, sid |-> NoSid, fig |-> "None",
     pushed |-> {}, rerendered |-> {}]

RouterInit ==
    /\ r_object \in RouterObjects
    /\ r_figure = (IF r_object \in NativeFigures THEN r_object ELSE "None")
    /\ r_patched = (IF r_object \in NativeFigures THEN {r_object} ELSE {})
    /\ r_models = {}
    /\ r_applied = [f \in NativeFigures |-> 0]
    /\ r_inbox = [v \in Views |-> 0]
    /\ r_last = NoEvent("init")
    /\ RenderIdle
    /\ CallsIdle

\* mutant of UpdateFigure: an object that is no native Figure clears _figure
UpdateFigureOrReset(obj, figure) ==
    IF obj \in NativeFigures THEN obj ELSE "None"

\* _update_figure: the figure the pane tracks once pane.object is obj
UpdateFigure(obj, figure) ==
    IF obj = "None" \/ obj \notin NativeFigures \/ obj = figure
    THEN figure
    ELSE obj

\* _send_update_msg: the views the message is applied to
SendUpdateMsg(source_view_id, models) ==
    IF source_view_id # NoSid THEN {} ELSE models

\* _send_restyle_msg and _send_relayout_msg hand their source_view_id on
SendRestyleMsg(source_view_id, models) == SendUpdateMsg(source_view_id, models)
SendRelayoutMsg(source_view_id, models) == SendUpdateMsg(source_view_id, models)

\* the source_view_id the remote-event handlers give the figure's mutation
\* entry points: self._figure.plotly_restyle(*self.restyle_data) and
\* self._figure.plotly_relayout(self.relayout_data) pass none
HandlerSid == NoSid

\* _apply_update of one message on each view of the set
Push(inbox, to) == [v \in DOMAIN inbox |-> IF v \in to THEN inbox[v] + 1 ELSE inbox[v]]

\* _get_model registers the view in _models
R_GetModel(v) ==
    /\ v \notin r_models
    /\ r_models' = r_models \cup {v}
    /\ r_last' = NoEvent("get_model")
    /\ UNCHANGED <<r_object, r_figure, r_patched, r_applied, r_inbox>>
    /\ UNCHANGED <<renderVars, extractVars, jsonVars, sourcesVars, tabsVars>>

\* pane.object = obj, which runs _update_figure
R_SetObject(obj) ==
    /\ r_object' = obj
    /\ r_figure' = UpdateFigure(obj, r_figure)
    /\ r_patched' = IF r_figure' # r_figure THEN r_patched \cup {obj} ELSE r_patched
    /\ r_last' = NoEvent("object")
    /\ UNCHANGED <<r_models, r_applied, r_inbox>>
    /\ UNCHANGED <<renderVars, extractVars, jsonVars, sourcesVars, tabsVars>>

\* a remote event of view v: restyle_data (name = "restyle") or relayout_data
\* (name = "relayout") is set on the pane and its watcher runs. has_data: the
\* value is not None; changed: the figure finds the event changes something.
R_RemoteEvent(name, v, has_data, changed) ==
    /\ v \in r_models
    /\ IF r_figure = "None" \/ ~has_data
       THEN /\ r_last' = [NoEvent(name) EXCEPT !.origin = v]
            /\ UNCHANGED <<r_applied, r_inbox>>
       ELSE /\ r_applied[r_figure] < MaxApplied
            /\ LET to == IF ~changed THEN {}
                         ELSE IF name = "restyle" THEN SendRestyleMsg(HandlerSid, r_models)
                         ELSE SendRelayoutMsg(HandlerSid, r_models)
               IN /\ r_applied' = [r_applied EXCEPT ![r_figure] =
                                      IF changed THEN @ + 1 ELSE @]
                  /\ r_inbox' = Push(r_inbox, to)
                  /\ r_last' = [NoEvent(name) EXCEPT
                                    !.origin = v,
                                    !.fig = IF changed THEN r_figure ELSE "None",
                                    !.pushed = to]
    /\ UNCHANGED <<r_object, r_figure, r_patched, r_models>>
    /\ UNCHANGED <<renderVars, extractVars, jsonVars, sourcesVars, tabsVars>>

\* the program mutates a figure the pane has patched. kind "restyle", "relayout"
\* and "update" reach _send_update_msg with the mutation's source_view_id; kind
\* "add" (also move, delete, animate) reaches _update_from_figure, which
\* triggers 'object' and so re-renders every view.
R_Mutate(fig, kind, sid) ==
    /\ fig \in r_patched
    /\ sid \in r_models \cup {NoSid}
    /\ r_applied[fig] < MaxApplied
    /\ r_applied' = [r_applied EXCEPT ![fig] = @ + 1]
    /\ LET to == IF kind = "add" THEN {}
                 ELSE IF kind = "restyle" THEN SendRestyleMsg(sid, r_models)
                 ELSE IF kind = "relayout" THEN SendRelayoutMsg(sid, r_models)
                 ELSE SendUpdateMsg(sid, r_models)
       IN /\ r_inbox' = Push(r_inbox, to)
          /\ r_last' = [op |-> "mutate", origin |-> NoSid, sid |-> sid, fig |-> fig,
                        pushed |-> to,
                        rerendered |-> IF kind = "add" THEN r_models ELSE {}]
    /\ UNCHANGED <<r_object, r_figure, r_patched, r_models>>
    /\ UNCHANGED <<renderVars, extractVars, jsonVars, sourcesVars, tabsVars>>

RouterNext ==
    \/ \E v \in Views : R_GetModel(v)
    \/ \E obj \in RouterObjects : R_SetObject(obj)
    \/ \E name \in {"restyle", "relayout"}, v \in Views, has_data, changed \in BOOLEAN :
          R_RemoteEvent(name, v, has_data, changed)
    \/ \E fig \in NativeFigures, kind \in {"restyle", "relayout", "update", "add"},
          sid \in Views \cup {NoSid} : R_Mutate(fig, kind, sid)

SpecRouter == RouterInit /\ [][RouterNext]_vars

-----------------------------------------------------------------------------
(***************************************************************************)
(* Properties of the event path (SpecRouter).                              *)
(***************************************************************************)
\* C3: a figure mutation that carries a source_view_id is pushed to every view
\* of _models but the originating one, and not to the originating one. (Read for
\* the mutations whose hook takes the source_view_id: restyle, relayout, update.)
C3_PushedToOtherViews ==
    (r_last.op = "mutate" /\ r_last.sid # NoSid /\ r_last.rerendered = {}) =>
        r_last.pushed = r_models \ {r_last.sid}

\* C4: a remote restyle event from the only view that changes the figure is
\* applied to it and no message is pushed to any view because of it.
C4_RestyleNotEchoed ==
    (r_last.op = "restyle" /\ r_last.fig # "None" /\ r_models = {r_last.origin}) =>
        r_last.pushed = {}

\* C10: when the pane has no figure (pane.object is None), a remote restyle or
\* relayout event mutates no figure and pushes no message.
C10_NoFigureIsNoOp ==
    (r_last.op \in {"restyle", "relayout"} /\ r_object = "None") =>
        r_last.fig = "None" /\ r_last.pushed = {}

\* C18: whenever pane.object is a native Figure, _figure is that object and its
\* hooks are patched; a step that leaves pane.object something else (None, a
\* dict, a tuple, a list of traces, an instance of a Figure subclass) leaves
\* _figure as it was, so _figure is never reset to None; and a remote restyle or
\* relayout event that changes a figure changes the tracked one.
C18_FigureTracking ==
    /\ [](r_object \in NativeFigures =>
              r_figure = r_object /\ r_object \in r_patched)
    /\ [][/\ r_object' \notin NativeFigures => r_figure' = r_figure
          /\ r_figure # "None" => r_figure' # "None"
          /\ (r_last'.op \in {"restyle", "relayout"} /\ r_last'.fig # "None") =>
                r_last'.fig = r_figure']_vars

\* pane.object was set to something that is no native Figure, and a remote
\* restyle event was applied to the figure tracked before
C18_Witness ==
    /\ r_object \notin NativeFigures
    /\ r_figure \in NativeFigures /\ r_figure \in r_patched
    /\ r_last.op = "restyle" /\ r_last.fig = r_figure

-----------------------------------------------------------------------------
(***************************************************************************)
(* SpecExtract: _get_sources_for_trace on one trace, with an empty data    *)
(* dict and no parent path, as _get_sources and _update_data_sources call  *)
(* it.                                                                     *)
(***************************************************************************)
ExtractLeaves == { Sc(7), Nd(<<1, 2>>), Nd(<<3, 4>>) }

ExtractValues ==
    ExtractLeaves
    \cup { Dict([b |-> l]) : l \in ExtractLeaves }
    \cup { List(<<Dict([b |-> l])>>) : l \in ExtractLeaves }
    \cup { List(<<Dict([b |-> Sc(7)]), Dict([b |-> Nd(<<1, 2>>)])>>) }
    \cup { List(<<Nd(<<1, 2>>)>>), List(<<Sc(7), Nd(<<1, 2>>)>>) }

\* the traces: every dict over some of the keys "a", "a.b" and "c"
ExtractTraces ==
    UNION { [K -> ExtractValues] : K \in SUBSET {"a", "a.b", "c"} }

ExtractInit ==
    /\ x_trace \in ExtractTraces
    /\ x_json = << >>
    /\ x_data = << >>
    /\ x_pc = "in"
    /\ RenderIdle
    /\ RouterIdle
    /\ JsonIdle /\ SourcesIdle /\ TabsIdle

X_Extract ==
    /\ x_pc = "in"
    /\ LET r == GetSourcesForTrace(x_trace, << >>, "")
       IN x_json' = r.json /\ x_data' = r.data
    /\ x_pc' = "done"
    /\ UNCHANGED <<x_trace, renderVars, routerVars, jsonVars, sourcesVars, tabsVars>>

ExtractNext == X_Extract

SpecExtract == ExtractInit /\ [][ExtractNext]_vars

-----------------------------------------------------------------------------
(***************************************************************************)
(* Properties of the extraction (SpecExtract).                             *)
(***************************************************************************)
\* whether a key holds a dot
HasDot(key) == \E i \in 1..Len(key) : SubSeq(key, i, i) = "."

\* a dotted path cut at its dots
RECURSIVE SplitPath(_)
SplitPath(path) ==
    IF ~HasDot(path) THEN <<path>>
    ELSE LET i == CHOOSE j \in 1..Len(path) :
                      /\ SubSeq(path, j, j) = "."
                      /\ \A k \in 1..(j - 1) : SubSeq(path, k, k) # "."
         IN <<SubSeq(path, 1, i - 1)>> \o SplitPath(SubSeq(path, i + 1, Len(path)))

\* every list of the dict is a list of mappings, at any depth
RECURSIVE OnlyMappingLists(_)
OnlyMappingLists(f) ==
    \A k \in DOMAIN f :
        /\ IsDict(f[k]) => OnlyMappingLists(f[k].dict)
        /\ IsList(f[k]) => \A i \in 1..Len(f[k].list) :
                              IsDict(f[k].list[i]) /\ OnlyMappingLists(f[k].list[i].dict)

\* no key of the dict holds a dot, at any depth
RECURSIVE NoDottedKeys(_)
NoDottedKeys(f) ==
    \A k \in DOMAIN f :
        /\ ~HasDot(k)
        /\ IsDict(f[k]) => NoDottedKeys(f[k].dict)
        /\ IsList(f[k]) => \A i \in 1..Len(f[k].list) :
                              IsDict(f[k].list[i]) => NoDottedKeys(f[k].list[i].dict)

\* the <<path, array>> of every array of a dict whose lists are lists of mappings
RECURSIVE ArraysIn(_, _)
ArraysIn(f, prefix) ==
    UNION { LET path == IF prefix = "" THEN k ELSE prefix \o "." \o k
            IN IF IsNdarray(f[k]) THEN { <<path, f[k]>> }
               ELSE IF IsDict(f[k]) THEN ArraysIn(f[k].dict, path)
               ELSE IF IsList(f[k])
               THEN UNION { ArraysIn(f[k].list[i].dict, path \o "." \o ToString(i - 1))
                            : i \in 1..Len(f[k].list) }
               ELSE {}
            : k \in DOMAIN f }

\* the path of every entry of a dict, containers included
RECURSIVE PathsIn(_, _)
PathsIn(f, prefix) ==
    UNION { LET path == IF prefix = "" THEN k ELSE prefix \o "." \o k
            IN {path} \cup
               (IF IsDict(f[k]) THEN PathsIn(f[k].dict, path)
                ELSE IF IsList(f[k])
                THEN UNION { IF IsDict(f[k].list[i])
                             THEN PathsIn(f[k].list[i].dict, path \o "." \o ToString(i - 1))
                             ELSE {}
                             : i \in 1..Len(f[k].list) }
                ELSE {})
            : k \in DOMAIN f }

\* value with arr put at the path segs below it (a list is entered by index)
RECURSIVE PutAt(_, _, _)
PutAt(value, segs, arr) ==
    IF segs = << >> THEN arr
    ELSE IF IsDict(value)
    THEN Dict(With(value.dict, Head(segs),
                   PutAt(IF Head(segs) \in DOMAIN value.dict
                         THEN value.dict[Head(segs)] ELSE Dict(<< >>),
                         Tail(segs), arr)))
    ELSE IF IsList(value) /\ \E i \in 1..Len(value.list) : ToString(i - 1) = Head(segs)
    THEN LET i == CHOOSE j \in 1..Len(value.list) : ToString(j - 1) = Head(segs)
         IN List([value.list EXCEPT ![i] = PutAt(@, Tail(segs), arr)])
    ELSE value

\* the buffer merged back into the trace, each column at its path
RECURSIVE MergeKeys(_, _, _)
MergeKeys(json, data, keys) ==
    IF keys = {} THEN json
    ELSE LET key == CHOOSE k \in keys : TRUE
         IN MergeKeys(PutAt(Dict(json), SplitPath(key), data[key][1]).dict,
                      data, keys \ {key})

MergeBack(json, data) == MergeKeys(json, data, DOMAIN data)

\* the extraction moved every array to the buffer and merging restores the trace
RoundTrips ==
    /\ \A pa \in ArraysIn(x_trace, "") :
          /\ pa[1] \notin PathsIn(x_json, "")
          /\ pa[1] \in DOMAIN x_data
          /\ x_data[pa[1]] = <<pa[2]>>
    /\ MergeBack(x_json, x_data) = x_trace

\* C6 (as stated): for every trace of scalars, arrays, nested mappings and lists
\* of mappings, with keys possibly dotted, after _get_sources_for_trace each
\* array is gone from its path in the trace and is the single element of the
\* buffer's column at that path, and merging the buffer back by path gives the
\* original trace.
C6_RoundTripAnyKeys ==
    (x_pc = "done" /\ OnlyMappingLists(x_trace)) => RoundTrips

\* C6 (amended): the same, for traces none of whose keys holds a dot.
C6_RoundTripPlainKeys ==
    (x_pc = "done" /\ OnlyMappingLists(x_trace) /\ NoDottedKeys(x_trace)) => RoundTrips

\* a trace with plain keys whose arrays sat in a nested mapping and in the second
\* mapping of a list
C6_Witness ==
    /\ x_pc = "done" /\ OnlyMappingLists(x_trace) /\ NoDottedKeys(x_trace)
    /\ {"a.1.b", "c.b"} \subseteq DOMAIN x_data

\* the arrays held in a value, at any depth of mappings and lists
RECURSIVE ArraysLeft(_)
ArraysLeft(v) ==
    IF IsNdarray(v) THEN {v}
    ELSE IF IsDict(v) THEN UNION { ArraysLeft(v.dict[k]) : k \in DOMAIN v.dict }
    ELSE IF IsList(v) THEN UNION { ArraysLeft(v.list[i]) : i \in 1..Len(v.list) }
    ELSE {}

\* C16: after _get_sources_for_trace no array is left anywhere in the trace, at
\* any depth and inside any list (lists whose first element is no mapping
\* included), and every array of the original trace is in the buffer.
C16_NoArrayLeftInTrace ==
    x_pc = "done" =>
        /\ ArraysLeft(Dict(x_json)) = {}
        /\ ArraysLeft(Dict(x_trace)) \subseteq { x_data[key][1] : key \in DOMAIN x_data }

-----------------------------------------------------------------------------
(***************************************************************************)
(* SpecTabs: _patch_tabs_plotly(viewable, root), the preprocessing hook    *)
(* that runs on every render of a root, over one widget tree.              *)
(*                                                                         *)
(* The tree holds the Tabs models and the PlotlyPlot models; each sits at  *)
(* the root or inside one tab (Panel) of a Tabs model. bokeh's             *)
(* m.select_one(selector) answers from m.references(), the models          *)
(* reachable from m, m included; tabs.select_one(pt) of line 337 is read   *)
(* as "pt is reachable from tabs". root.select yields the models from a    *)
(* set, so the order in which a run visits the plots is not fixed.         *)
(***************************************************************************)
TabsModels == {"T1", "T2"}
PlotModels == {"P1", "P2"}
\* the tabs (Panels) of each Tabs model, by identity
Panels == {"a", "b"}

AtRoot == [in |-> "root", tab |-> "-"]
InTab(tabs, panel) == [in |-> tabs, tab |-> panel]

\* the trees: T1 at the root, T2 at the root or in a tab of T1, each plot at the
\* root or in a tab of T1 or T2
Trees ==
    { p \in [TabsModels \cup PlotModels ->
                {AtRoot} \cup { InTab(t, a) : t \in TabsModels, a \in Panels }] :
        /\ p["T1"] = AtRoot
        /\ p["T2"].in # "T2" }

\* the orders in which root.select({'type': PlotlyPlot}) may yield the plots
Visits ==
    { v \in [1..Cardinality(PlotModels) -> PlotModels] :
        \A i, j \in DOMAIN v : i # j => v[i] # v[j] }

\* the two orders of the tabs of a Tabs model
TabOrders ==
    { o \in [1..Cardinality(Panels) -> Panels] :
        \A i, j \in DOMAIN o : i # j => o[i] # o[j] }

\* tabs.select_one({'id': m.id}): m is tabs or sits below it
RECURSIVE SelectOne(_, _, _)
SelectOne(parent, tabs, m) ==
    \/ m = tabs
    \/ parent[m].in # "root" /\ SelectOne(parent, tabs, parent[m].in)

\* the tab of tabs below which m sits
RECURSIVE PanelOf(_, _, _)
PanelOf(parent, tabs, m) ==
    IF parent[m].in = tabs THEN parent[m].tab ELSE PanelOf(parent, tabs, parent[m].in)

\* parent_tabs: the Tabs models that hold the plot
ParentTabs(parent, m) == { tabs \in TabsModels : SelectOne(parent, tabs, m) }

\* parent_tab: the Tabs models of parent_tabs that hold no other one of them;
\* none when the set is empty (parent_tab is None)
ParentTab(parent, m) ==
    { tabs \in ParentTabs(parent, m) :
        ~ \E pt \in ParentTabs(parent, m) \ {tabs} : SelectOne(parent, tabs, pt) }

\* for i, tab in enumerate(parent_tab.tabs): if tab.select_one(...): break
TabIndex(parent, order, tabs, m) ==
    (CHOOSE k \in DOMAIN order[tabs] : order[tabs][k] = PanelOf(parent, tabs, m)) - 1

\* the CustomJS of lines 352-353; its code is the one visibility rule
CustomJS(m, i) == [model |-> m, i |-> i]

\* the loop over plotly_models, from the plot at the head of models on: the
\* callbacks and the visible flags when the function is left
RECURSIVE PatchModels(_, _, _, _, _, _)
PatchModels(models, parent, order, active, cbs, visible) ==
    IF models = << >> THEN [cbs |-> cbs, visible |-> visible]
    ELSE LET m == Head(models)
             found == ParentTab(parent, m)
         IN IF found = {}
            THEN [cbs |-> cbs, visible |-> visible]                     \* return
            ELSE LET parent_tab == CHOOSE tabs \in found : TRUE
                     i == TabIndex(parent, order, parent_tab, m)
                     updated == \E k \in DOMAIN cbs[parent_tab] :
                                    cbs[parent_tab][k].model = m
                 IN IF updated
                    THEN PatchModels(Tail(models), parent, order, active,
                            [cbs EXCEPT ![parent_tab] =
                                [k \in DOMAIN @ |-> IF @[k].model = m
                                                    THEN [@[k] EXCEPT !.i = i]
                                                    ELSE @[k]]],
                            visible)                                    \* continue
                    ELSE PatchModels(Tail(models), parent, order, active,
                            [cbs EXCEPT ![parent_tab] = Append(@, CustomJS(m, i))],
                            [visible EXCEPT ![m] = (active[parent_tab] = i)])

\* _patch_tabs_plotly(viewable, root) with the plots visited in the given order
PatchTabsPlotly(visit, parent, order, active, cbs, visible) ==
    PatchModels(visit, parent, order, active, cbs, visible)

TabsStep(name, visit) == [op |-> name, visit |-> visit]

\* a composed tree that the hook has not run on yet
TabsInit ==
    /\ t_parent \in Trees
    /\ t_order \in [TabsModels -> TabOrders]
    /\ t_active \in [TabsModels -> 0..(Cardinality(Panels) - 1)]
    /\ t_cbs = [tabs \in TabsModels |-> << >>]
    /\ t_visible = [m \in PlotModels |-> TRUE]
    /\ t_last = TabsStep("init", << >>)
    /\ RenderIdle /\ RouterIdle /\ ExtractIdle /\ JsonIdle /\ SourcesIdle

\* a render of the root runs the hook
T_Patch(visit) ==
    /\ LET r == PatchTabsPlotly(visit, t_parent, t_order, t_active, t_cbs, t_visible)
       IN t_cbs' = r.cbs /\ t_visible' = r.visible
    /\ t_last' = TabsStep("patch", visit)
    /\ UNCHANGED <<t_parent, t_order, t_active>>
    /\ UNCHANGED <<renderVars, routerVars, extractVars, jsonVars, sourcesVars>>

\* the program reorders the tabs of a Tabs model
T_Reorder(tabs, o) ==
    /\ o # t_order[tabs]
    /\ t_order' = [t_order EXCEPT ![tabs] = o]
    /\ t_last' = TabsStep("reorder", << >>)
    /\ UNCHANGED <<t_parent, t_active, t_cbs, t_visible>>
    /\ UNCHANGED <<renderVars, routerVars, extractVars, jsonVars, sourcesVars>>

\* the user activates tab a of a Tabs model; the browser runs the callbacks on
\* change:active, "model.visible = cb_obj.active == i;"
T_Activate(tabs, a) ==
    /\ a # t_active[tabs]
    /\ t_active' = [t_active EXCEPT ![tabs] = a]
    /\ t_visible' = [m \in PlotModels |->
                        IF \E k \in DOMAIN t_cbs[tabs] : t_cbs[tabs][k].model = m
                        THEN \A k \in DOMAIN t_cbs[tabs] :
                                t_cbs[tabs][k].model = m => t_cbs[tabs][k].i = a
                        ELSE t_visible[m]]
    /\ t_last' = TabsStep("activate", << >>)
    /\ UNCHANGED <<t_parent, t_order, t_cbs>>
    /\ UNCHANGED <<renderVars, routerVars, extractVars, jsonVars, sourcesVars>>

TabsNext ==
    \/ \E visit \in Visits : T_Patch(visit)
    \/ \E tabs \in TabsModels, o \in TabOrders : T_Reorder(tabs, o)
    \/ \E tabs \in TabsModels, a \in 0..(Cardinality(Panels) - 1) : T_Activate(tabs, a)

SpecTabs == TabsInit /\ [][TabsNext]_vars

-----------------------------------------------------------------------------
(***************************************************************************)
(* Properties of the tab patch (SpecTabs).                                 *)
(***************************************************************************)
Patched == t_last.op = "patch"

\* the Tabs models that carry a visibility rule for the plot
RuleHolders(m) ==
    { tabs \in TabsModels : \E k \in DOMAIN t_cbs[tabs] : t_cbs[tabs][k].model = m }

\* C11: after a run of _patch_tabs_plotly, a plot that sits inside several
\* nested Tabs models has its visibility rule on exactly one of them, the
\* innermost one that encloses it, and on no outer one.
C11_RuleOnInnermostOnly ==
    Patched =>
        \A m \in PlotModels :
            Cardinality(ParentTabs(t_parent, m)) >= 2 =>
                RuleHolders(m) = ParentTab(t_parent, m)

\* C12: after a run of _patch_tabs_plotly over a tree that holds a plot with no
\* enclosing Tabs model, every plot that has an enclosing Tabs model carries its
\* visibility rule, whatever the order in which the run visited the plots.
C12_OthersStillPatched ==
    (Patched /\ \E q \in PlotModels : ParentTabs(t_parent, q) = {}) =>
        \A m \in PlotModels :
            ParentTabs(t_parent, m) # {} => RuleHolders(m) # {}

\* the positions of the visibility rules of the plot among the callbacks of tabs
RulesOf(tabs, m) == { k \in DOMAIN t_cbs[tabs] : t_cbs[tabs][k].model = m }

\* C17: after any number of runs of _patch_tabs_plotly over the tree, with tabs
\* reordered between the runs, each pair of a Tabs model and a plot carries at
\* most one visibility rule on change:active, and the index that rule records is
\* the index of the tab that holds the plot now.
C17_OneRuleWithCurrentIndex ==
    Patched =>
        \A tabs \in TabsModels, m \in PlotModels :
            /\ Cardinality(RulesOf(tabs, m)) <= 1
            /\ \A k \in RulesOf(tabs, m) :
                  t_cbs[tabs][k].i = TabIndex(t_parent, t_order, tabs, m)

-----------------------------------------------------------------------------
(***************************************************************************)
(* SpecJson: _plotly_json_wrapper on one figure.                           *)
(***************************************************************************)
JsonLeaves ==
    { Sc(7), Nd(<<1, 2>>), [ndM |-> <<1, 2>>],
      List(<<[dt |-> 1], [dt |-> 2]>>), List(<<Sc(7)>>) }

\* a leaf, or a sub-mapping holding one
JsonValues == JsonLeaves \cup { Dict([d |-> l]) : l \in JsonLeaves }

JsonTraces == UNION { [K -> JsonValues] : K \in SUBSET {"x", "marker"} }

\* figures of one trace, and of two
JsonFigures ==
    { Fig(<<t>>, LayoutEmpty) : t \in JsonTraces }
    \cup { Fig(<<TraceD, t>>, LayoutEmpty) : t \in JsonTraces }

JsonInit ==
    /\ j_fig \in JsonFigures
    /\ j_json = << >>
    /\ j_pc = "in"
    /\ RenderIdle /\ RouterIdle /\ ExtractIdle /\ SourcesIdle /\ TabsIdle

J_Wrap ==
    /\ j_pc = "in"
    /\ j_json' = PlotlyJsonWrapper(j_fig)
    /\ j_pc' = "done"
    /\ UNCHANGED <<j_fig, renderVars, routerVars, extractVars, sourcesVars, tabsVars>>

JsonNext == J_Wrap

SpecJson == JsonInit /\ [][JsonNext]_vars

-----------------------------------------------------------------------------
(***************************************************************************)
(* Properties of the datetime fix (SpecJson).                              *)
(***************************************************************************)
\* an array of datetime64, or a non-empty list of datetime objects
HoldsDatetimes(v) ==
    \/ DOMAIN v = {"ndM"}
    \/ IsList(v) /\ v.list # << >> /\ \A i \in 1..Len(v.list) : DOMAIN v.list[i] = {"dt"}

\* an array of strings, or a list of strings
HoldsStrings(v) ==
    \/ DOMAIN v = {"ndU"}
    \/ IsList(v) /\ \A i \in 1..Len(v.list) : DOMAIN v.list[i] = {"str"}

\* out is the mapping orig with every datetime-valued leaf string-typed, at any
\* depth of sub-mappings
RECURSIVE DatetimesAreStrings(_, _)
DatetimesAreStrings(orig, out) ==
    /\ DOMAIN out = DOMAIN orig
    /\ \A k \in DOMAIN orig :
          IF HoldsDatetimes(orig[k]) THEN HoldsStrings(out[k])
          ELSE IF IsDict(orig[k])
          THEN IsDict(out[k]) /\ DatetimesAreStrings(orig[k].dict, out[k].dict)
          ELSE TRUE

\* C13: after _plotly_json_wrapper every datetime-valued leaf of every trace,
\* array or list, at the top level of the trace or inside a sub-mapping, has
\* string-typed elements.
C13_DatetimeLeavesAreStrings ==
    j_pc = "done" =>
        /\ Len(j_json.data) = Len(j_fig.data)
        /\ \A idx \in 1..Len(j_fig.data) :
              DatetimesAreStrings(j_fig.data[idx], j_json.data[idx])

-----------------------------------------------------------------------------
(***************************************************************************)
(* SpecSources: _update_data_sources(cds, trace) on one reused buffer and  *)
(* one trace.                                                              *)
(***************************************************************************)
SourceArrays ==
    { Nd(<<1, 2>>), Nd(<<1, 3>>), Nd(<<1, 2, 3>>), Nd(<<1, NaN>>), [ndU |-> <<1, 2>>] }

\* the buffers a view may hold from earlier renders: columns "x", "marker.color"
SourceBuffers ==
    UNION { { ColumnDataSource(1, [key \in K |-> <<f[key]>>]) : f \in [K -> SourceArrays] }
            : K \in SUBSET {"x", "marker.color"} }

\* the traces: an array or nothing at x and at marker.color, and a name
SourceTraces ==
    { [name |-> Sc(3)] @@ tx @@ tm :
        tx \in { << >> } \cup { [x |-> a] : a \in SourceArrays },
        tm \in { << >> } \cup { [marker |-> Dict([color |-> a])] : a \in SourceArrays } }

SourcesInit ==
    /\ s_cds \in SourceBuffers
    /\ s_trace \in SourceTraces
    /\ s_res = << >>
    /\ s_pc = "in"
    /\ RenderIdle /\ RouterIdle /\ ExtractIdle /\ JsonIdle /\ TabsIdle

S_Update ==
    /\ s_pc = "in"
    /\ s_res' = UpdateDataSources(s_cds, s_trace)
    /\ s_pc' = "done"
    /\ UNCHANGED <<s_cds, s_trace, renderVars, routerVars, extractVars, jsonVars, tabsVars>>

SourcesNext == S_Update

SpecSources == SourcesInit /\ [][SourcesNext]_vars

-----------------------------------------------------------------------------
(***************************************************************************)
(* Properties of the buffer update (SpecSources).                          *)
(***************************************************************************)
\* two arrays differ by type, by shape or by content: some pair of elements is
\* unequal, a NaN being unequal to every element
ArraysDiffer(old, new) ==
    \/ DOMAIN old # DOMAIN new
    \/ Len(Elems(old)) # Len(Elems(new))
    \/ \E i \in 1..Len(Elems(new)) :
          Elems(old)[i] # Elems(new)[i] \/ NaN \in {Elems(old)[i], Elems(new)[i]}

\* the arrays of the trace by path, freshly extracted
FreshArrays == GetSourcesForTrace(s_trace, << >>, "").data

\* the columns the claim says are overwritten: those of the trace whose array
\* differs from the stored one, or has no stored one to compare with
DifferingKeys ==
    { key \in DOMAIN FreshArrays :
        \/ key \notin DOMAIN s_cds.data
        \/ ArraysDiffer(s_cds.data[key][1], FreshArrays[key][1]) }

\* C15: _update_data_sources on a reused buffer assigns exactly the columns whose
\* freshly extracted array differs from the stored one (by type, shape or
\* content, or whose comparison fails), each to the fresh array; every other
\* column, those absent from the new trace included, is as it was; and it
\* returns true exactly when it assigned at least one column.
C15_OverwritesExactlyChanged ==
    s_pc = "done" =>
        /\ s_res.keys = DifferingKeys
        /\ s_res.cds.id = s_cds.id
        /\ DOMAIN s_res.cds.data = DOMAIN s_cds.data \cup DifferingKeys
        /\ \A key \in DifferingKeys : s_res.cds.data[key] = FreshArrays[key]
        /\ \A key \in DOMAIN s_cds.data \ DifferingKeys :
              s_res.cds.data[key] = s_cds.data[key]
        /\ s_res.update_sources <=> DifferingKeys # {}

\* a call that overwrote one column and left another, absent from the trace,
\* as it was
C15_Witness ==
    /\ s_pc = "done" /\ s_res.update_sources
    /\ s_res.keys = {"x"}
    /\ {"x", "marker.color"} \subseteq DOMAIN s_cds.data
    /\ "marker.color" \notin DOMAIN FreshArrays
    /\ s_cds.data["x"] # s_res.cds.data["x"]
    /\ s_res.cds.data["marker.color"] = s_cds.data["marker.color"]

=============================================================================
